---- MODULE Spec2Model ----
(***************************************************************************)
(* Image converters of ckeditor5-image (image/converters.js).              *)
(*                                                                         *)
(* A conversion pass is either an upcast pass (view -> model), in which    *)
(* the handlers registered on 'element:figure' run on one wrapper element, *)
(* or a downcast pass (model -> view), in which the handlers registered on *)
(* 'attribute:<key>:image' run on one attribute change of a model image.   *)
(* Each handler is one action; the action is the whole converter function. *)
(***************************************************************************)
EXTENDS Naturals, Sequences, FiniteSets

VARIABLES
    direction,        \* "upcast" or "downcast": which dispatcher drives the pass
    view,             \* the view element: data.viewItem / mapper.toViewElement( data.item )
    attrs,            \* view attributes: set of <<node, key, value>>
    viewConsumable,   \* conversionApi.consumable of an upcast pass: unconsumed <<node, feature>>
    otherConsumes,    \* features consumed so far by converters other than the figure converter
    modelRange,       \* data.modelRange: the model nodes committed by updateConversionResult
    modelOut,         \* model nodes created in the pass: <<view node, model parent>>
    evt,              \* the attribute change event of a downcast pass (NoEvent before it fires)
    modelConsumable,  \* conversionApi.consumable of a downcast pass: unconsumed event names
    eventsFired,      \* number of attribute change events fired in the pass
    handlersRun,      \* number of handlers the dispatcher has called for the current event
    aborted,          \* a handler threw: the dispatcher calls no further handler
    upcastValue,      \* model 'srcset' value produced by the upcast mapping of the view image
    history,          \* what the downcast pass has been so far (see NoHistory)
    last              \* record of the last handler execution

vars == <<direction, view, attrs, viewConsumable, otherConsumes, modelRange, modelOut, evt,
          modelConsumable, eventsFired, handlersRun, aborted, upcastValue, history, last>>

(***************************************************************************)
(* Bounds.                                                                 *)
(***************************************************************************)
MaxChildren == 2     \* children of the wrapper element
MaxHandlers == 2     \* handlers registered for one event
MaxEvents == 2       \* attribute change events fired in one downcast pass
MaxOtherConsumes == 2  \* features consumed by other converters in one upcast pass

(***************************************************************************)
(* JavaScript values.  null, undefined, strings and plain objects with the *)
(* optional fields 'data' and 'width'.                                     *)
(***************************************************************************)
Null == [type |-> "null", s |-> "", fields |-> {}]
Undefined == [type |-> "undefined", s |-> "", fields |-> {}]
Str(x) == [type |-> "string", s |-> x, fields |-> {}]
Obj(F) == [type |-> "object", s |-> "", fields |-> F]

\* JavaScript truthiness, as used by `if ( srcset.data )` and `value || ''`.
Truthy(v) == \/ v.type = "object"
             \/ v.type = "string" /\ v.s # ""

\* Reading a property of null or undefined throws a TypeError.
PropertyReadThrows(v) == v.type \in {"null", "undefined"}

HasField(v, f) == \E p \in v.fields : p[1] = f

\* v.f for a value whose properties can be read.
Get(v, f) == IF HasField(v, f)
             THEN (CHOOSE p \in v.fields : p[1] = f)[2]
             ELSE Undefined

\* String( value ), as the view stores attribute values.
ToString(v) == CASE v.type = "string" -> v.s
                 [] v.type = "object" -> "[object Object]"
                 [] v.type = "null" -> "null"
                 [] OTHER -> "undefined"

(***************************************************************************)
(* The view tree.  An element is [name, classes, children]; a child is     *)
(* [name, src, children] and a grandchild [name, src], where src tells     *)
(* whether the element carries a 'src' attribute when the pass starts.     *)
(* A node is named by its path from the element: <<>> is the element       *)
(* itself, <<i>> its i-th child, <<i, j>> the j-th child of that child.    *)
(***************************************************************************)
NoNode == <<0>>

ImgSrc == [name |-> "img", src |-> TRUE, children |-> <<>>]
ImgNoSrc == [name |-> "img", src |-> FALSE, children |-> <<>>]
Caption == [name |-> "figcaption", src |-> FALSE, children |-> <<>>]
LinkedImg == [name |-> "a", src |-> FALSE,
              children |-> <<[name |-> "img", src |-> TRUE]>>]

ChildKinds == {ImgSrc, ImgNoSrc, Caption, LinkedImg}

ChildLists == UNION {[1..n -> ChildKinds] : n \in 0..MaxChildren}

\* The wrappers an 'element:figure' event can carry.
Figures == {[name |-> "figure", classes |-> c, children |-> ch] :
                c \in SUBSET {"image"}, ch \in ChildLists}

\* The view elements the mapper binds a model image to: the widget
\* <figure class="image">, plain or with a linked image, a bare <img>, and
\* a wrapper that holds no image.
MappedViews ==
    {[name |-> "figure", classes |-> {"image"}, children |-> <<ImgSrc>>],
     [name |-> "figure", classes |-> {"image"}, children |-> <<LinkedImg, Caption>>],
     [name |-> "figure", classes |-> {"image"}, children |-> <<Caption>>],
     [name |-> "img", classes |-> {}, children |-> <<>>]}

Nodes(v) ==
    {<<>>} \cup {<<i>> : i \in DOMAIN v.children}
           \cup UNION {{<<i, j>> : j \in DOMAIN v.children[i].children} :
                            i \in DOMAIN v.children}

Descendants(v) == Nodes(v) \ {<<>>}

NodeName(v, p) ==
    CASE Len(p) = 0 -> v.name
      [] Len(p) = 1 -> v.children[p[1]].name
      [] OTHER -> v.children[p[1]].children[p[2]].name

NodeHasSrc(v, p) ==
    CASE Len(p) = 0 -> v.name = "img"
      [] Len(p) = 1 -> v.children[p[1]].src
      [] OTHER -> v.children[p[1]].children[p[2]].src

\* Document order of the descendants: a child, then its children, then the
\* next child.
Precedes(q, p) ==
    \/ q[1] < p[1]
    \/ q[1] = p[1] /\ Len(q) < Len(p)
    \/ q[1] = p[1] /\ Len(q) = 2 /\ Len(p) = 2 /\ q[2] < p[2]

\* Element#hasAttribute and Element#getAttribute of the view.
hasAttribute(at, node, key) == \E a \in at : a[1] = node /\ a[2] = key

getAttribute(at, node, key) ==
    IF hasAttribute(at, node, key)
    THEN Str((CHOOSE a \in at : a[1] = node /\ a[2] = key)[3])
    ELSE Undefined

\* The attributes the view tree carries when the pass starts.
InitialAttrs(v) == {<<p, "src", "u.png">> : p \in {q \in Nodes(v) : NodeHasSrc(v, q)}}

(***************************************************************************)
(* utils.getViewImgFromWidget: the element itself when it is an <img>,     *)
(* else the first <img> among its children and their children, else none.  *)
(***************************************************************************)
getViewImgFromWidget(v) ==
    IF v.name = "img" THEN <<>>
    ELSE LET imgs == {p \in Descendants(v) : NodeName(v, p) = "img"}
         IN  IF imgs = {} THEN NoNode
             ELSE CHOOSE p \in imgs : \A q \in imgs \ {p} : Precedes(p, q)

(***************************************************************************)
(* ViewConsumable: the unconsumed <<node, feature>> pairs of the pass.     *)
(***************************************************************************)
\* ViewConsumable.createFrom( view ): every name, class and attribute.
CreateViewConsumable(v) ==
    {<<p, "name">> : p \in Nodes(v)}
        \cup {<<<<>>, "class:image">> : c \in v.classes \cap {"image"}}
        \cup {<<p, "attr:src">> : p \in {q \in Nodes(v) : NodeHasSrc(v, q)}}

\* consumable.test( node, features ): all of them are still unconsumed.
Test(cons, node, features) == \A f \in features : <<node, f>> \in cons

\* consumable.consume( node, features ): all or nothing.
Consume(cons, node, features) ==
    IF Test(cons, node, features)
    THEN cons \ {<<node, f>> : f \in features}
    ELSE cons

(***************************************************************************)
(* Calls a handler makes on the conversion API, in order.                  *)
(***************************************************************************)
Call(api, key, value, target) ==
    [api |-> api, key |-> key, value |-> value, target |-> target]

\* A model node made from view node `from` and inserted under the model node
\* made from view node `parent` (NoNode: at data.modelCursor).
ModelNode(from, parent) == [from |-> from, parent |-> parent]

\* No model node (the null that first() returns for an empty range).
NoModel == ModelNode(NoNode, NoNode)

\* The writer calls among a handler's calls.
IsWriterCall(c) == c.api \in {"setAttribute", "removeAttribute"}
WriterCalls(calls) == SelectSeq(calls, IsWriterCall)

\* first( iterable ) of ckeditor5-utils: the first item, or none.
First(items) == IF items = <<>> THEN NoModel ELSE Head(items)

\* conversionApi.convertItem( viewImage, data.modelCursor ): fires the
\* element event of the image.  The image converter either creates the
\* model image, consuming the image name and 'src', or declines (produces
\* is FALSE, or the name is no longer consumable) and yields an empty range.
convertItem(cons, viewImage, produces) ==
    IF produces /\ Test(cons, viewImage, {"name"})
    THEN [items |-> <<ModelNode(viewImage, NoNode)>>,
          cons |-> cons \ {<<viewImage, "name">>, <<viewImage, "attr:src">>}]
    ELSE [items |-> <<>>, cons |-> cons]

\* The descendants of the element in document order.
RECURSIVE InOrder(_)
InOrder(S) ==
    IF S = {} THEN <<>>
    ELSE LET p == CHOOSE x \in S : \A y \in S \ {x} : Precedes(x, y)
         IN  <<p>> \o InOrder(S \ {p})

\* conversionApi.convertChildren( viewItem, modelImage ): converts every
\* descendant whose name is still consumable into a child of modelImage.
convertChildren(cons, v, modelImage) ==
    LET todo == {p \in Descendants(v) : <<p, "name">> \in cons}
        order == InOrder(todo)
    IN  [items |-> [i \in DOMAIN order |-> ModelNode(order[i], modelImage.from)],
         cons |-> cons \ ({<<p, "name">> : p \in todo}
                            \cup {<<p, "attr:src">> : p \in todo})]

(***************************************************************************)
(* viewFigureToModel: the converter registered on 'element:figure'.        *)
(***************************************************************************)
\* Line 34 without the test of the wrapper.
IsImageFigureUnchecked(cons, viewItem) == TRUE

\* Line 34: the element is an "image figure".
IsImageFigure(cons, viewItem) == Test(cons, viewItem, {"name", "class:image"})

\* Line 42 without the 'src' check.
ImageIsConvertibleIgnoringSrc(cons, at, viewImage) ==
    /\ viewImage # NoNode
    /\ Test(cons, viewImage, {"name"})

\* Line 42 without the test of the image's name.
ImageIsConvertibleIgnoringConsumed(cons, at, viewImage) ==
    /\ viewImage # NoNode
    /\ hasAttribute(at, viewImage, "src")

\* Line 42: the image is there, has 'src' and was not converted yet.
ImageIsConvertible(cons, at, viewImage) ==
    /\ viewImage # NoNode
    /\ hasAttribute(at, viewImage, "src")
    /\ Test(cons, viewImage, {"name"})

\* Line 53 without the check of the conversion result.
ImageWasConvertedUnchecked(modelImage) == TRUE

\* Line 53: the image was successfully converted.
ImageWasConverted(modelImage) == modelImage # NoModel

\* Line 58 left out: the rest of the figure is not converted.
ConvertRestSkipped(cons, v, modelImage) == [items |-> <<>>, cons |-> cons]

\* Line 58: the rest of the figure's children become children of the image.
ConvertRest(cons, v, modelImage) == convertChildren(cons, v, modelImage)

\* What one execution of the converter does: the API calls it makes, the
\* consumable, the created model nodes and data.modelRange it leaves.
\* `produces` is the answer of the image's own converter inside convertItem.
FigureConverter(v, at, cons, out, range, produces) ==
    LET declined == [calls |-> <<>>, cons |-> cons, out |-> out, range |-> range,
                     outcome |-> "declined"]
        viewImage == getViewImgFromWidget(v)
        conversionResult == convertItem(cons, viewImage, produces)
        modelImage == First(conversionResult.items)
        children == ConvertRest(conversionResult.cons, v, modelImage)
        itemCall == Call("convertItem", "", Undefined, viewImage)
    IN  IF ~IsImageFigure(cons, <<>>) THEN declined
        ELSE IF ~ImageIsConvertible(cons, at, viewImage) THEN declined
        ELSE IF ~ImageWasConverted(modelImage)
             THEN [calls |-> <<itemCall>>,
                   cons |-> conversionResult.cons,
                   out |-> out \o conversionResult.items,
                   range |-> range,
                   outcome |-> "declined"]
             ELSE [calls |-> <<itemCall,
                               Call("convertChildren", "", Undefined, <<>>),
                               Call("updateConversionResult", "", Undefined, modelImage.from)>>,
                   cons |-> children.cons,
                   out |-> out \o conversionResult.items \o children.items,
                   range |-> <<modelImage>>,
                   outcome |-> "done"]

(***************************************************************************)
(* Attribute change events of the downcast dispatcher.                     *)
(***************************************************************************)
DataStrings == {"", "a 1x"}
WidthStrings == {"", "300"}

OptionalField(f, strings) == {{}} \cup {{<<f, Str(x)>>} : x \in strings}

\* Values of the model 'srcset' attribute: { data?, width? }, null, or absent.
SrcsetObjects == {Obj(d \cup w) : d \in OptionalField("data", DataStrings),
                                  w \in OptionalField("width", WidthStrings)}
SrcsetValues == SrcsetObjects \cup {Null, Undefined}

\* Values of the model 'alt' attribute.
AltValues == {Null, Undefined, Str(""), Str("x")}

AttributeKeys == {"srcset", "alt"}

ValuesOf(key) == IF key = "srcset" THEN SrcsetValues ELSE AltValues

\* evt.name of the change of attribute `key` on a model image.
EventName(key) == IF key = "srcset" THEN "attribute:srcset:image"
                                    ELSE "attribute:alt:image"

Event(key, old, new) == [name |-> EventName(key), key |-> key, old |-> old, new |-> new]

NoEvent == [name |-> "", key |-> "", old |-> Undefined, new |-> Undefined]

(***************************************************************************)
(* The downcast writer.  A handler's writer calls are applied in order; a  *)
(* call whose target is no element throws and ends the handler.            *)
(***************************************************************************)
setAttribute(at, key, value, node) ==
    {a \in at : ~(a[1] = node /\ a[2] = key)} \cup {<<node, key, ToString(value)>>}

removeAttribute(at, key, node) == {a \in at : ~(a[1] = node /\ a[2] = key)}

RECURSIVE ApplyWrites(_, _, _)
ApplyWrites(at, done, writes) ==
    IF writes = <<>> THEN [attrs |-> at, calls |-> done, threw |-> FALSE]
    ELSE LET c == Head(writes)
         IN  IF c.target = NoNode
             THEN [attrs |-> at, calls |-> Append(done, c), threw |-> TRUE]
             ELSE ApplyWrites(IF c.api = "setAttribute"
                                  THEN setAttribute(at, c.key, c.value, c.target)
                                  ELSE removeAttribute(at, c.key, c.target),
                              Append(done, c), Tail(writes))

(***************************************************************************)
(* srcsetAttributeConverter: the converter registered on                   *)
(* 'attribute:srcset:image'.                                               *)
(***************************************************************************)
\* Lines 76-78 and 124-126 with the result of consume ignored.
ConsumeChangeIgnoringResult(cons, name) == TRUE

\* Lines 76-78 and 124-126: consumable.consume( data.item, evt.name ).
ConsumeChange(cons, name) == name \in cons

\* Lines 85-94 without the check of srcset.width.
SrcsetRemoveWritesAlwaysWidth(srcset, img) ==
    IF Truthy(Get(srcset, "data"))
    THEN <<Call("removeAttribute", "srcset", Undefined, img),
           Call("removeAttribute", "sizes", Undefined, img),
           Call("removeAttribute", "width", Undefined, img)>>
    ELSE <<>>

\* Lines 85-94 without the removal of 'sizes'.
SrcsetRemoveWritesKeepingSizes(srcset, img) ==
    IF Truthy(Get(srcset, "data"))
    THEN <<Call("removeAttribute", "srcset", Undefined, img)>>
         \o (IF Truthy(Get(srcset, "width"))
             THEN <<Call("removeAttribute", "width", Undefined, img)>>
             ELSE <<>>)
    ELSE <<>>

\* Lines 85-94: the writer calls of the removal branch.
SrcsetRemoveWrites(srcset, img) ==
    IF Truthy(Get(srcset, "data"))
    THEN <<Call("removeAttribute", "srcset", Undefined, img),
           Call("removeAttribute", "sizes", Undefined, img)>>
         \o (IF Truthy(Get(srcset, "width"))
             THEN <<Call("removeAttribute", "width", Undefined, img)>>
             ELSE <<>>)
    ELSE <<>>

\* Lines 96-106 without the check of srcset.width.
SrcsetSetWritesAlwaysWidth(srcset, img) ==
    IF Truthy(Get(srcset, "data"))
    THEN <<Call("setAttribute", "srcset", Get(srcset, "data"), img),
           Call("setAttribute", "sizes", Str("100vw"), img),
           Call("setAttribute", "width", Get(srcset, "width"), img)>>
    ELSE <<>>

\* Lines 96-106 without the check of srcset.data.
SrcsetSetWritesUnguarded(srcset, img) ==
    <<Call("setAttribute", "srcset", Get(srcset, "data"), img),
      Call("setAttribute", "sizes", Str("100vw"), img)>>
    \o (IF Truthy(Get(srcset, "width"))
        THEN <<Call("setAttribute", "width", Get(srcset, "width"), img)>>
        ELSE <<>>)

\* Lines 96-106: the writer calls of the set branch.
SrcsetSetWrites(srcset, img) ==
    IF Truthy(Get(srcset, "data"))
    THEN <<Call("setAttribute", "srcset", Get(srcset, "data"), img),
           Call("setAttribute", "sizes", Str("100vw"), img)>>
         \o (IF Truthy(Get(srcset, "width"))
             THEN <<Call("setAttribute", "width", Get(srcset, "width"), img)>>
             ELSE <<>>)
    ELSE <<>>

\* What one execution of a downcast converter leaves, given the writer calls
\* it attempts after mapping the item to its view element.
Downcast(cons, name, at, writes) ==
    LET w == ApplyWrites(at, <<Call("toViewElement", "", Undefined, <<>>)>>, writes)
    IN  [calls |-> w.calls, cons |-> cons \ {name}, attrs |-> w.attrs,
         outcome |-> IF w.threw THEN "threw" ELSE "done"]

\* A converter that fails reading a property of null or undefined, after
\* consuming the change and mapping the item.
ThrowsTypeError(cons, name, at) ==
    [calls |-> <<Call("toViewElement", "", Undefined, <<>>)>>, cons |-> cons \ {name},
     attrs |-> at, outcome |-> "threw"]

SrcsetConverter(e, cons, v, at) ==
    LET img == getViewImgFromWidget(v)
        srcset == IF e.new = Null THEN e.old ELSE e.new
    IN  IF ~ConsumeChange(cons, e.name)
        THEN [calls |-> <<>>, cons |-> cons, attrs |-> at, outcome |-> "declined"]
        ELSE IF PropertyReadThrows(srcset) THEN ThrowsTypeError(cons, e.name, at)
        ELSE IF e.new = Null
             THEN Downcast(cons, e.name, at, SrcsetRemoveWrites(srcset, img))
             ELSE Downcast(cons, e.name, at, SrcsetSetWrites(srcset, img))

(***************************************************************************)
(* modelToViewAttributeConverter: the converter registered on              *)
(* 'attribute:<attributeKey>:image'.                                       *)
(***************************************************************************)
\* Line 132 without the coercion to ''.
MirroredValueUncoerced(new) == new

\* Line 132: data.attributeNewValue || ''.
MirroredValue(new) == IF Truthy(new) THEN new ELSE Str("")

\* Line 132 with the mapped element as the target of the call.
AttributeWritesOnElement(key, new, img) ==
    <<Call("setAttribute", key, MirroredValue(new), <<>>)>>

\* Line 132: the writer call.
AttributeWrites(key, new, img) ==
    <<Call("setAttribute", key, MirroredValue(new), img)>>

AttributeConverter(e, cons, v, at) ==
    LET img == getViewImgFromWidget(v)
    IN  IF ~ConsumeChange(cons, e.name)
        THEN [calls |-> <<>>, cons |-> cons, attrs |-> at, outcome |-> "declined"]
        ELSE Downcast(cons, e.name, at, AttributeWrites(e.key, e.new, img))

(***************************************************************************)
(* addUpcastImageConverters: the value function of the 'srcset' mapping.   *)
(***************************************************************************)
\* Lines 157-167 without the width.
SrcsetValueDataOnly(at, viewImage) ==
    Obj({<<"data", getAttribute(at, viewImage, "srcset")>>})

\* Lines 157-167 without the hasAttribute( 'width' ) check.
SrcsetValueAlwaysWidth(at, viewImage) ==
    Obj({<<"data", getAttribute(at, viewImage, "srcset")>>,
         <<"width", getAttribute(at, viewImage, "width")>>})

\* Lines 157-167.
SrcsetValue(at, viewImage) ==
    Obj({<<"data", getAttribute(at, viewImage, "srcset")>>}
        \cup (IF hasAttribute(at, viewImage, "width")
              THEN {<<"width", getAttribute(at, viewImage, "width")>>}
              ELSE {}))

(***************************************************************************)
(* The state machine.                                                      *)
(***************************************************************************)
NoRun == [handler |-> "none", calls |-> <<>>, outcome |-> "none", produces |-> FALSE,
          earlierWrites |-> FALSE,
          viewConsBefore |-> {}, rangeBefore |-> <<>>, outBefore |-> <<>>,
          modelConsBefore |-> {}, attrsBefore |-> {}]

\* The history of a downcast pass.  srcsetOnly: no change was converted by
\* the generic attribute converter.  chained: every change so far was a change
\* of 'srcset' whose old value was the value the attribute had (null at
\* first, then the new value of the change before), fired after the change
\* before it had been consumed.
NoHistory == [srcsetOnly |-> TRUE, chained |-> TRUE]

\* The value the model attribute of the current event has now.
CurrentValue == IF eventsFired = 0 THEN Null ELSE evt.new

Init ==
    /\ direction \in {"upcast", "downcast"}
    /\ view \in IF direction = "upcast" THEN Figures ELSE MappedViews
    /\ attrs = InitialAttrs(view)
    /\ viewConsumable = IF direction = "upcast" THEN CreateViewConsumable(view) ELSE {}
    /\ otherConsumes = 0
    /\ modelRange = <<>>
    /\ modelOut = <<>>
    /\ evt = NoEvent
    /\ modelConsumable = {}
    /\ eventsFired = 0
    /\ handlersRun = 0
    /\ aborted = FALSE
    /\ upcastValue = Undefined
    /\ history = NoHistory
    /\ last = NoRun

\* A converter other than the figure converter (one of higher priority, or one
\* of an earlier event of the traversal) consumes a feature of the view.
OtherConverterConsumes(node, feature) ==
    /\ direction = "upcast"
    /\ otherConsumes < MaxOtherConsumes
    /\ <<node, feature>> \in viewConsumable
    /\ viewConsumable' = Consume(viewConsumable, node, {feature})
    /\ otherConsumes' = otherConsumes + 1
    /\ last' = NoRun
    /\ UNCHANGED <<direction, view, attrs, modelRange, modelOut, evt, modelConsumable,
                   eventsFired, handlersRun, aborted, upcastValue, history>>

\* The dispatcher calls the next handler of viewFigureToModel registered on
\* 'element:figure'.
FigureHandler(produces) ==
    /\ direction = "upcast"
    /\ handlersRun < MaxHandlers
    /\ LET r == FigureConverter(view, attrs, viewConsumable, modelOut, modelRange, produces)
       IN  /\ viewConsumable' = r.cons
           /\ modelOut' = r.out
           /\ modelRange' = r.range
           /\ last' = [handler |-> "figure", calls |-> r.calls, outcome |-> r.outcome,
                       produces |-> produces, earlierWrites |-> FALSE,
                       viewConsBefore |-> viewConsumable, rangeBefore |-> modelRange,
                       outBefore |-> modelOut, modelConsBefore |-> {},
                       attrsBefore |-> attrs]
    /\ handlersRun' = handlersRun + 1
    /\ UNCHANGED <<direction, view, attrs, otherConsumes, evt, modelConsumable,
                   eventsFired, aborted, upcastValue, history>>

\* The model attribute `key` of the image changes from old to new: the
\* downcast dispatcher fires the event with a fresh consumable.
FireEvent(key, old, new) ==
    /\ direction = "downcast"
    /\ eventsFired < MaxEvents
    /\ evt' = Event(key, old, new)
    /\ modelConsumable' = {EventName(key)}
    /\ eventsFired' = eventsFired + 1
    /\ handlersRun' = 0
    /\ aborted' = FALSE
    /\ upcastValue' = Undefined
    /\ history' = [history EXCEPT
                       !.chained = /\ @
                                   /\ key = "srcset"
                                   /\ old = CurrentValue
                                   /\ evt.name \notin modelConsumable]
    /\ last' = NoRun
    /\ UNCHANGED <<direction, view, attrs, viewConsumable, otherConsumes, modelRange,
                   modelOut>>

\* The effect of a downcast handler's execution on the state.
DowncastStep(handler, r) ==
    /\ attrs' = r.attrs
    /\ modelConsumable' = r.cons
    /\ aborted' = (r.outcome = "threw")
    /\ last' = [handler |-> handler, calls |-> r.calls, outcome |-> r.outcome,
                produces |-> FALSE,
                earlierWrites |-> (last.earlierWrites \/ WriterCalls(last.calls) # <<>>),
                viewConsBefore |-> {}, rangeBefore |-> <<>>, outBefore |-> <<>>,
                modelConsBefore |-> modelConsumable, attrsBefore |-> attrs]
    /\ handlersRun' = handlersRun + 1
    /\ upcastValue' = Undefined
    /\ history' = [history EXCEPT
                       !.srcsetOnly = @ /\ ~(handler = "attribute" /\ r.outcome # "declined")]
    /\ UNCHANGED <<direction, view, viewConsumable, otherConsumes, modelRange, modelOut,
                   evt, eventsFired>>

\* The dispatcher calls the next handler of srcsetAttributeConverter.
SrcsetHandler ==
    /\ direction = "downcast"
    /\ evt.key = "srcset"
    /\ handlersRun < MaxHandlers
    /\ ~aborted
    /\ DowncastStep("srcset", SrcsetConverter(evt, modelConsumable, view, attrs))

\* The dispatcher calls the next handler of
\* modelToViewAttributeConverter( evt.key ).
AttributeHandler ==
    /\ direction = "downcast"
    /\ evt # NoEvent
    /\ handlersRun < MaxHandlers
    /\ ~aborted
    /\ DowncastStep("attribute", AttributeConverter(evt, modelConsumable, view, attrs))

\* The view is loaded back: the upcast 'srcset' mapping matches an <img>
\* that has the attribute and computes the model value.
UpcastSrcset(viewImage) ==
    /\ NodeName(view, viewImage) = "img"
    /\ hasAttribute(attrs, viewImage, "srcset")
    /\ upcastValue' = SrcsetValue(attrs, viewImage)
    /\ UNCHANGED <<direction, view, attrs, viewConsumable, otherConsumes, modelRange,
                   modelOut, evt, modelConsumable, eventsFired, handlersRun, aborted,
                   history, last>>

Next ==
    \/ \E n \in Nodes(view), f \in {"name", "class:image", "attr:src"} :
            OtherConverterConsumes(n, f)
    \/ \E produces \in BOOLEAN : FigureHandler(produces)
    \/ \E key \in AttributeKeys : \E old \in ValuesOf(key), new \in ValuesOf(key) :
            FireEvent(key, old, new)
    \/ SrcsetHandler
    \/ AttributeHandler
    \/ \E n \in Nodes(view) : UpcastSrcset(n)

Spec == Init /\ [][Next]_vars

(***************************************************************************)
(* Properties of the figure converter.                                     *)
(***************************************************************************)
\* The inner image of the current view element, as the locator finds it.
InnerImage == getViewImgFromWidget(view)

FigureRan == last.handler = "figure"

\* The last handler made none of the conversion API's mutating calls and
\* left the consumable, the created model nodes and data.modelRange alone.
FigureDeclinedUntouched ==
    /\ last.calls = <<>>
    /\ viewConsumable = last.viewConsBefore
    /\ modelOut = last.outBefore
    /\ modelRange = last.rangeBefore

\* The wrapper failed the test for {name, class 'image'} when the last
\* handler started.
WrapperTestFailed ==
    \/ <<<<>>, "name">> \notin last.viewConsBefore
    \/ <<<<>>, "class:image">> \notin last.viewConsBefore

\* The inner image was absent, had no 'src', or its name was consumed when
\* the last handler started.
ImageUnusable ==
    \/ InnerImage = NoNode
    \/ \A a \in attrs : ~(a[1] = InnerImage /\ a[2] = "src")
    \/ <<InnerImage, "name">> \notin last.viewConsBefore

\* C1: an 'element:figure' event whose wrapper fails the test for
\* {name, class 'image'}, or whose inner image is absent, lacks 'src' or has
\* its name consumed, leaves every consumable feature as it was and makes
\* none of the calls convertItem, convertChildren, updateConversionResult.
C1_GuardFailureIsSideEffectFree ==
    (FigureRan /\ (WrapperTestFailed \/ ImageUnusable)) => FigureDeclinedUntouched

\* C1 witness: the converter ran on an image figure whose image has no 'src'.
C1_Witness ==
    /\ FigureRan
    /\ ~WrapperTestFailed
    /\ InnerImage # NoNode
    /\ \A a \in attrs : ~(a[1] = InnerImage /\ a[2] = "src")
    /\ <<InnerImage, "name">> \in last.viewConsBefore

\* C2: once a handler of the figure converter has committed the wrapper
\* (updateConversionResult set data.modelRange), a later handler of it on the
\* same wrapper makes no conversion API call and converts nothing, so the
\* inner image is converted at most once in the pass.
C2_SecondHandlerDeclines ==
    /\ (FigureRan /\ last.rangeBefore # <<>>) => FigureDeclinedUntouched
    /\ Cardinality({i \in DOMAIN modelOut : modelOut[i].from = InnerImage}) <= 1

\* C2 witness: a handler ran after an earlier one had committed the wrapper.
C2_Witness == FigureRan /\ last.rangeBefore # <<>> /\ handlersRun = 2

\* C3: when convertItem yields a range with no model node, the converter
\* calls neither convertChildren nor updateConversionResult, and the
\* wrapper's name and class 'image' are still unconsumed afterwards.
C3_FailedImageConversionDeclines ==
    (FigureRan /\ Len(last.calls) >= 1 /\ ~last.produces) =>
        /\ last.calls = <<Call("convertItem", "", Undefined, InnerImage)>>
        /\ modelOut = last.outBefore
        /\ modelRange = last.rangeBefore
        /\ Test(viewConsumable, <<>>, {"name", "class:image"})

\* C3 witness: convertItem was called and produced no model node.
C3_Witness ==
    /\ FigureRan
    /\ Len(last.calls) >= 1
    /\ last.calls[1].api = "convertItem"
    /\ ~last.produces
    /\ modelOut = last.outBefore

(***************************************************************************)
(* Properties of the attribute converters.                                 *)
(***************************************************************************)
SrcsetRan == last.handler = "srcset"

AttributeRan == last.handler = "attribute"

\* The last handler's consume of the change succeeded.
ConsumeSucceeded == evt.name \in last.modelConsBefore

ImagePresent == InnerImage # NoNode

LastWrites == WriterCalls(last.calls)

\* The three attributes were absent from the image when the last handler
\* started.
ImageWasBare ==
    \A a \in last.attrsBefore :
        ~(a[1] = InnerImage /\ a[2] \in {"srcset", "sizes", "width"})

HasData(v) == v.type = "object" /\ HasField(v, "data")
HasWidth(v) == v.type = "object" /\ HasField(v, "width")
HasNonEmptyData(v) == HasData(v) /\ Get(v, "data") # Str("")
HasNonEmptyWidth(v) == HasWidth(v) /\ Get(v, "width") # Str("")

SetCall(key, value) == Call("setAttribute", key, value, InnerImage)
RemoveCall(key) == Call("removeAttribute", key, Undefined, InnerImage)

\* C4 as stated: for a srcset change whose consume succeeds and whose new
\* value has a data field, the converter sets 'srcset' to the data, 'sizes'
\* to '100vw', and 'width' exactly when the new value has a width field.
C4_AsStated ==
    (SrcsetRan /\ ConsumeSucceeded /\ ImagePresent /\ HasData(evt.new)) =>
        LastWrites = <<SetCall("srcset", Get(evt.new, "data")),
                       SetCall("sizes", Str("100vw"))>>
                     \o (IF HasWidth(evt.new)
                         THEN <<SetCall("width", Get(evt.new, "width"))>>
                         ELSE <<>>)

\* C4 amended: for a srcset change whose consume succeeds and whose new value
\* has a non-empty data field, the converter sets the inner image's 'srcset'
\* to the data and 'sizes' to '100vw', and sets 'width' to the new value's
\* width exactly when the new value has a non-empty width field.
C4_SetsSrcsetSizesWidth ==
    (SrcsetRan /\ ConsumeSucceeded /\ ImagePresent /\ HasNonEmptyData(evt.new)) =>
        /\ LastWrites = <<SetCall("srcset", Get(evt.new, "data")),
                          SetCall("sizes", Str("100vw"))>>
                        \o (IF HasNonEmptyWidth(evt.new)
                            THEN <<SetCall("width", Get(evt.new, "width"))>>
                            ELSE <<>>)
        /\ <<InnerImage, "srcset", Get(evt.new, "data").s>> \in attrs
        /\ <<InnerImage, "sizes", "100vw">> \in attrs
        /\ HasNonEmptyWidth(evt.new) =>
               <<InnerImage, "width", Get(evt.new, "width").s>> \in attrs

\* C4 witness: a value with data and width was set on an image.
C4_Witness ==
    /\ SrcsetRan /\ ConsumeSucceeded /\ ImagePresent
    /\ HasNonEmptyData(evt.new) /\ HasNonEmptyWidth(evt.new)
    /\ <<InnerImage, "width", "300">> \in attrs

\* C5 as stated: for a srcset change whose new value is null, the converter
\* removes 'srcset' and 'sizes' if the old value had a data field, 'width'
\* too exactly when it also had a width field, and touches no attribute if
\* the old value had no data field.
C5_AsStated ==
    (SrcsetRan /\ ImagePresent /\ evt.new = Null) =>
        LastWrites = IF HasData(evt.old)
                     THEN <<RemoveCall("srcset"), RemoveCall("sizes")>>
                          \o (IF HasWidth(evt.old) THEN <<RemoveCall("width")>> ELSE <<>>)
                     ELSE <<>>

\* C5 amended: for a srcset change whose consume succeeds and whose new value
\* is null: if the old value had a non-empty data field, the converter
\* removes 'srcset' and 'sizes' from the inner image, and 'width' exactly
\* when the old value also had a non-empty width field; if the old value had
\* no data field or an empty one, it makes no writer call at all.
C5_RemovesSrcsetSizesWidth ==
    (SrcsetRan /\ ConsumeSucceeded /\ ImagePresent /\ evt.new = Null) =>
        IF HasNonEmptyData(evt.old)
        THEN /\ LastWrites = <<RemoveCall("srcset"), RemoveCall("sizes")>>
                             \o (IF HasNonEmptyWidth(evt.old)
                                 THEN <<RemoveCall("width")>>
                                 ELSE <<>>)
             /\ \A a \in attrs : ~(a[1] = InnerImage /\ a[2] \in {"srcset", "sizes"})
             /\ HasNonEmptyWidth(evt.old) =>
                    \A a \in attrs : ~(a[1] = InnerImage /\ a[2] = "width")
        ELSE LastWrites = <<>> /\ attrs = last.attrsBefore

\* C5 witness: the three attributes, present on the image, were removed.
C5_Witness ==
    /\ SrcsetRan /\ ConsumeSucceeded /\ ImagePresent /\ evt.new = Null
    /\ HasNonEmptyData(evt.old) /\ HasNonEmptyWidth(evt.old)
    /\ \E a \in last.attrsBefore : a[1] = InnerImage /\ a[2] = "width"
    /\ \E a \in last.attrsBefore : a[1] = InnerImage /\ a[2] = "srcset"
    /\ Len(LastWrites) = 3

\* C6: for a srcset change whose new value is not null and has no data field,
\* the srcset converter makes no writer call and leaves the view attributes
\* as they were.
C6_NoDataSetsNothing ==
    (SrcsetRan /\ evt.new # Null /\ ~HasData(evt.new)) =>
        LastWrites = <<>> /\ attrs = last.attrsBefore

\* C6 witness: a value with only a width was converted, its change consumed,
\* on an image that carried 'srcset' before.
C6_Witness ==
    /\ SrcsetRan /\ ConsumeSucceeded /\ ImagePresent
    /\ HasWidth(evt.new) /\ ~HasData(evt.new)
    /\ \E a \in last.attrsBefore : a[1] = InnerImage /\ a[2] = "srcset"

\* C7 as stated: for every srcset value with a data field, the srcset
\* converter applied to an image without 'srcset', 'sizes' and 'width',
\* followed by the upcast value function, gives back the value.
C7_AsStated ==
    (SrcsetRan /\ ConsumeSucceeded /\ ImagePresent /\ ImageWasBare
        /\ HasData(evt.new) /\ upcastValue # Undefined) =>
        upcastValue = evt.new

\* C7 amended: for every srcset value whose data field is non-empty and whose
\* width field, if present, is non-empty, the srcset converter applied to an
\* image without 'srcset', 'sizes' and 'width' leaves an image that the
\* upcast mapping matches, and the upcast value function gives back a record
\* equal to the value.
C7_RoundTrip ==
    (SrcsetRan /\ ConsumeSucceeded /\ ImagePresent /\ ImageWasBare
        /\ HasNonEmptyData(evt.new)
        /\ (HasWidth(evt.new) => HasNonEmptyWidth(evt.new))) =>
        /\ \E a \in attrs : a[1] = InnerImage /\ a[2] = "srcset"
        /\ upcastValue # Undefined => upcastValue = evt.new

\* C7 witness: a value with data and width went to the view and back.
C7_Witness ==
    /\ SrcsetRan /\ ConsumeSucceeded /\ ImagePresent /\ ImageWasBare
    /\ HasNonEmptyData(evt.new) /\ HasNonEmptyWidth(evt.new)
    /\ upcastValue = evt.new

\* C8: for an attribute change whose consume succeeds, the generic converter
\* makes exactly one writer call: setAttribute on the inner image for the
\* event's key, with the new value, or with '' when the new value is null
\* (or absent); it never calls removeAttribute.
C8_MirrorsAttribute ==
    (AttributeRan /\ ConsumeSucceeded /\ ImagePresent) =>
        LastWrites = <<SetCall(evt.key, IF evt.new \in {Null, Undefined}
                                        THEN Str("")
                                        ELSE evt.new)>>

\* C8 witness: 'alt' was set to null and the view image got alt="".
C8_Witness ==
    /\ AttributeRan /\ ConsumeSucceeded /\ ImagePresent
    /\ evt.key = "alt" /\ evt.new = Null
    /\ <<InnerImage, "alt", "">> \in attrs

\* C9: of the handlers run for one attribute change, at most one makes
\* writer calls, and a handler that runs after the change was consumed
\* calls neither the mapper nor the writer.
C9_ExactlyOnce ==
    /\ (last.handler \in {"srcset", "attribute"} /\ ~ConsumeSucceeded) =>
           last.calls = <<>> /\ attrs = last.attrsBefore
    /\ ~(last.earlierWrites /\ LastWrites # <<>>)

\* C9 witness: a second handler ran after the first had consumed the change
\* and written to the view.
C9_Witness ==
    /\ last.handler \in {"srcset", "attribute"}
    /\ ~ConsumeSucceeded
    /\ last.earlierWrites
    /\ handlersRun = 2

\* The calls of the last handler that change the output: everything but the
\* mapper lookup.
IsMutatingCall(c) == c.api # "toViewElement"
LastMutatingCalls == SelectSeq(last.calls, IsMutatingCall)

\* C10 as stated: when the locator finds no image, a converter consumes no
\* feature and makes no writer or conversion API mutation call.
C10_AsStated ==
    (last.handler # "none" /\ ~ImagePresent) =>
        /\ LastMutatingCalls = <<>>
        /\ last.handler = "figure" => viewConsumable = last.viewConsBefore
        /\ last.handler # "figure" => modelConsumable = last.modelConsBefore

\* C11 as stated: for every old and new value of a srcset change, the srcset
\* converter ends normally, having declined or completed its writer calls.
\* (Stated for views that hold an inner image.)
C11_AsStated ==
    (SrcsetRan /\ ImagePresent) => last.outcome \in {"declined", "done"}

(***************************************************************************)
(* Properties of the upcast value function.                                *)
(***************************************************************************)
\* The <img> elements of the view that carry a 'srcset' attribute.
ImagesWithSrcset ==
    {p \in Nodes(view) : NodeName(view, p) = "img"
                            /\ \E a \in attrs : a[1] = p /\ a[2] = "srcset"}

\* C12: the value the upcast 'srcset' mapping computes for a view image is a
\* record whose data is the image's 'srcset' attribute value, whose width is
\* present, and equal to the image's 'width' attribute, exactly when the
\* image has a 'width' attribute, and which has no other field.
C12_UpcastValueShape ==
    upcastValue # Undefined =>
        /\ upcastValue.type = "object"
        /\ \A f \in upcastValue.fields : f[1] \in {"data", "width"}
        /\ \E p \in ImagesWithSrcset :
              /\ \E a \in attrs : /\ a[1] = p /\ a[2] = "srcset"
                                  /\ <<"data", Str(a[3])>> \in upcastValue.fields
              /\ \A a \in attrs : (a[1] = p /\ a[2] = "width") =>
                                      <<"width", Str(a[3])>> \in upcastValue.fields
              /\ (\E f \in upcastValue.fields : f[1] = "width") =>
                     \E a \in attrs : a[1] = p /\ a[2] = "width"
        /\ Cardinality(upcastValue.fields) <= 2

\* C12 witness: the value of an image with 'srcset' and no 'width', computed
\* after the second change of the pass.
C12_Witness ==
    /\ upcastValue # Undefined
    /\ upcastValue.fields = {<<"data", Str("a 1x")>>}
    /\ \A a \in attrs : a[2] # "width"
    /\ eventsFired = 2

\* C12 witness of the other case: the value of an image that has a 'width'.
C12_WithWidth ==
    /\ upcastValue # Undefined
    /\ <<"width", Str("300")>> \in upcastValue.fields

(***************************************************************************)
(* Properties of the conversion protocol.                                  *)
(***************************************************************************)
\* The last handler consumed the feature it tested on its target: the
\* wrapper's name and class 'image' for the figure converter, the change for
\* the attribute converters.
LastHandlerConsumedItsFeature ==
    IF FigureRan
    THEN /\ Test(last.viewConsBefore, <<>>, {"name", "class:image"})
         /\ <<<<>>, "name">> \notin viewConsumable
         /\ <<<<>>, "class:image">> \notin viewConsumable
    ELSE ConsumeSucceeded /\ evt.name \notin modelConsumable

\* C14 as stated: in every execution of the figure converter, the srcset
\* converter and the generic attribute converter, the first output-mutating
\* call comes after a successful consume, by that handler, of the feature it
\* tested on its target node.
C14_AsStated ==
    (last.handler # "none" /\ LastMutatingCalls # <<>>) => LastHandlerConsumedItsFeature

\* The names of the calls the last handler made, in order.
LastApis == [i \in DOMAIN last.calls |-> last.calls[i].api]

\* The model nodes the last handler created.
NewNodes == SubSeq(modelOut, Len(last.outBefore) + 1, Len(modelOut))

\* C15: an execution of the figure converter calls updateConversionResult at
\* most once, as its last call after convertItem and convertChildren, and only
\* when both guards passed and convertItem returned a model node; an
\* execution that returns before that call leaves data.modelRange, the model
\* output and the consumable as they were, so that a guard on the wrapper
\* gives a later handler the answer it gave before.
C15_TwoStateCommit ==
    FigureRan =>
        /\ LastApis \in {<<>>, <<"convertItem">>,
                         <<"convertItem", "convertChildren", "updateConversionResult">>}
        /\ Len(LastApis) = 3 =>
               /\ ~WrapperTestFailed /\ ~ImageUnusable /\ last.produces
               /\ NewNodes # <<>> /\ Head(NewNodes) = ModelNode(InnerImage, NoNode)
               /\ modelRange = <<ModelNode(InnerImage, NoNode)>>
        /\ Len(LastApis) < 3 =>
               /\ modelRange = last.rangeBefore
               /\ modelOut = last.outBefore
               /\ viewConsumable = last.viewConsBefore

\* C15 witness: the converter committed a wrapper.
C15_Witness ==
    /\ FigureRan
    /\ Len(LastApis) = 3
    /\ last.rangeBefore = <<>>
    /\ modelRange # <<>>

\* C16: on a successful figure conversion the inner image yields exactly one
\* model node in the pass, inserted at the cursor and not again as a child of
\* the model image, and every other descendant of the wrapper that was not
\* converted before yields exactly one child of the model image.
C16_ChildrenExceptImage ==
    (FigureRan /\ last.outcome = "done") =>
        /\ Cardinality({i \in DOMAIN modelOut : modelOut[i].from = InnerImage}) = 1
        /\ \A i \in DOMAIN NewNodes :
               NewNodes[i].from = InnerImage => NewNodes[i].parent = NoNode
        /\ \A p \in Descendants(view) \ {InnerImage} :
               <<p, "name">> \in last.viewConsBefore =>
                   /\ Cardinality({i \in DOMAIN NewNodes : NewNodes[i].from = p}) = 1
                   /\ \A i \in DOMAIN NewNodes :
                          NewNodes[i].from = p => NewNodes[i].parent = InnerImage

\* C16 witness: a figure with an image and another child was converted.
C16_Witness ==
    /\ FigureRan /\ last.outcome = "done"
    /\ Len(NewNodes) >= 2
    /\ \E i \in DOMAIN NewNodes : NewNodes[i].parent = InnerImage

(***************************************************************************)
(* Properties of the view the srcset converter maintains.                  *)
(***************************************************************************)
ImageHas(key) == \E a \in attrs : a[1] = InnerImage /\ a[2] = key

NoEmptyField(v) == \A f \in v.fields : f[2] # Str("")

\* The pass so far is a chain of 'srcset' changes, each consumed by the
\* srcset converter, on a view that holds an inner image.
SrcsetChain ==
    /\ direction = "downcast"
    /\ ImagePresent
    /\ eventsFired > 0
    /\ history.chained
    /\ history.srcsetOnly
    /\ evt.name \notin modelConsumable

C18_SizesFollowsSrcset ==
    (direction = "downcast" /\ ImagePresent /\ history.srcsetOnly) =>
        /\ ImageHas("sizes") <=> ImageHas("srcset")
        /\ \A a \in attrs : (a[1] = InnerImage /\ a[2] = "sizes") => a[3] = "100vw"

\* C18 witness: the srcset converter removed 'srcset' and 'sizes' that an
\* earlier change had set.
C18_Witness ==
    /\ history.srcsetOnly /\ SrcsetRan /\ ImagePresent
    /\ evt.new = Null
    /\ \E a \in last.attrsBefore : a[1] = InnerImage /\ a[2] = "sizes"
    /\ ~ImageHas("sizes") /\ ~ImageHas("srcset")

\* The state C18 is about when the attributes are there.
C18_BothPresent ==
    /\ history.srcsetOnly /\ SrcsetRan /\ ImagePresent
    /\ <<InnerImage, "sizes", "100vw">> \in attrs /\ ImageHas("srcset")

(***************************************************************************)
(* Frame of the two downcast converters.                                   *)
(***************************************************************************)
LastKeys ==
    IF last.handler = "srcset" THEN {"srcset", "sizes", "width"} ELSE {evt.key}

\* C19: every writer call of the srcset converter has the image returned by
\* the locator as its target and one of 'srcset', 'sizes', 'width' as its
\* key; every writer call of the generic converter has that image as its
\* target and the key of the event; the view attributes differ from those
\* before the run on that image and those keys only, and the model range
\* and the converted model nodes are left as they were.
C19_WriterFrame ==
    (SrcsetRan \/ AttributeRan) =>
        /\ \A i \in 1..Len(LastWrites) :
               /\ LastWrites[i].target = InnerImage
               /\ LastWrites[i].key \in LastKeys
        /\ \A a \in (attrs \ last.attrsBefore) \cup (last.attrsBefore \ attrs) :
               a[1] = InnerImage /\ a[2] \in LastKeys
        /\ modelOut = last.outBefore
        /\ modelRange = last.rangeBefore

\* C19 witness: either converter has written to the image inside a figure,
\* the wrapper being another node.
C19_Witness ==
    /\ ImagePresent /\ InnerImage # <<>>
    /\ AttributeRan
    /\ LastWrites # <<>>
    /\ attrs # last.attrsBefore

\* The same for the srcset converter.
C19_SrcsetWrote ==
    /\ ImagePresent /\ InnerImage # <<>>
    /\ SrcsetRan
    /\ Len(LastWrites) = 3

====
